---- MODULE Spec2Model ----
(***************************************************************************)
(* Model of BlueskyIngest (src/app/post_ingestor.py) and DatabaseClient    *)
(* (src/data/database.py): construction, the run_forever loop, one run()   *)
(* of the ingest pipeline (collect -> dedup -> enrich -> append), the      *)
(* rate-limit retry of _fetch_author_feed and the wall clock the loop      *)
(* reads.  The upstream API, the scraped web pages, the wall clock and the *)
(* interrupt signal are the environment.                                   *)
(*                                                                         *)
(* A row keeps the columns the pipeline decides on: uuid, author,          *)
(* timestamp, external_url, page_title, meta_description.  display_name,   *)
(* title and text are copied from the feed item to the table unchanged and *)
(* are left out.                                                           *)
(***************************************************************************)
EXTENDS Integers, Sequences, FiniteSets, TLC

VARIABLES
  env,             \* the world of one behaviour (fixed): see Worlds below
  pc,              \* position of the single thread
  accounts,        \* self.accounts
  existing_uuids,  \* self.existing_uuids
  store,           \* rows of the table `posts`, in insertion order
  acct,            \* index in accounts of the loop of _collect_posts
  posts,           \* the list `posts` of _collect_posts
  batch,           \* new_df of run(), enriched in place
  meta,            \* results of _fetch_metadata for the rows done so far
  nRequests,       \* requests.get calls of the current _fetch_author_feed
  n429,            \* 429 answers received by the current _fetch_author_feed
  nWaits,          \* time.sleep(5) calls of the current _fetch_author_feed
  waited,          \* seconds slept inside the current _fetch_author_feed
  clock,           \* seconds of wall clock since `start` was last recorded
  elapsed,         \* `elapsed` of run_forever
  to_sleep,        \* `to_sleep` of run_forever
  slept,           \* seconds slept by run_forever in this iteration
  gap,             \* seconds between the last two recordings of `start`
  runs,            \* run() calls started
  status,          \* per account index: what its fetch did in this run
  prevStatus,      \* status of the previous run
  result,          \* how the last finished run() ended
  metaFailed,      \* _fetch_metadata calls of this run that hit an exception
  interruptedAt,   \* pc at which KeyboardInterrupt was raised, or "none"
  token,           \* self.token
  appendCalls,     \* append_dataframe calls of this run
  metaCalls,       \* uuids of the rows _fetch_metadata was called for in this run
  dbErrorLogged    \* logger.exception("DB insert failed") was called

vars == << env, pc, accounts, existing_uuids, store, acct, posts, batch, meta,
           nRequests, n429, nWaits, waited, clock, elapsed, to_sleep, slept,
           gap, runs, status, prevStatus, result, metaFailed, interruptedAt,
           token, appendCalls, metaCalls, dbErrorLogged >>

----------------------------------------------------------------------------
(* Bounds of the model *)

\* longest feed the upstream answers with
MaxFeedLen == 2
\* most 429 answers to one _fetch_author_feed call
MaxRetries == 2
\* most run() calls of one behaviour
MaxRuns == 2

----------------------------------------------------------------------------
(* Program constants *)

\* time.sleep(5) after a 429
RateLimitSleep == 5
\* time.sleep(5) after each account
AccountSleep == 5
\* rec.get("$type") that is kept
PostType == "app.bsky.feed.post"

----------------------------------------------------------------------------
(* The upstream's feed items.  uri is the value of post.get("uri", ""): a  *)
(* post without uri reads as "", and so does a record without createdAt.   *)
(* A malformed item is one on which the body of the item loop raises       *)
(* (item["post"] is not a mapping).                                        *)

Item(type, uri, createdAt, external) ==
  [type |-> type, uri |-> uri, createdAt |-> createdAt, external |-> external]

MalformedItem == Item("malformed", "", "", "")

Items ==
  { Item(PostType, "p1", "2024-01-01T00:00:00Z", "http://u1"),
    Item(PostType, "p2", "yesterday", ""),
    Item(PostType, "", "", ""),
    Item("app.bsky.feed.repost", "p3", "2024-01-01T00:00:00Z", ""),
    MalformedItem }

SeqsUpTo(S, n) == UNION { [1..k -> S] : k \in 0..n }

Feeds == SeqsUpTo(Items, MaxFeedLen)

\* the pages behind the external links: url -> (title, description)
PageOf(url) == IF url = "http://u1" THEN << "T1", "D1" >> ELSE << "", "" >>
Reachable(url) == url = "http://u1"

----------------------------------------------------------------------------
(* Pure functions of the pipeline *)

\* the dict appended to `posts` for one kept item
PostRow(item, acctName) ==
  [uuid |-> item.uri, author |-> acctName,
   timestamp |-> item.createdAt, external_url |-> item.external]

\* an item loop that builds the rows of an account in a list of its own and
\* hands them over only when the whole feed was processed
CollectFeedAllOrNothing(feed, acctName, existing) ==
  IF \E k \in DOMAIN feed : feed[k].type = "malformed"
    THEN [rows |-> << >>, raised |-> TRUE]
    ELSE LET Kept(item) == item.type = PostType /\ item.uri \notin existing
             kept == SelectSeq(feed, Kept)
         IN [rows |-> [k \in DOMAIN kept |-> PostRow(kept[k], acctName)],
             raised |-> FALSE]

\* The item loop of _collect_posts over one feed: the rows appended to
\* `posts`, in feed order, and whether the loop raised (at a malformed item;
\* the rows appended before it stay in `posts`).
RECURSIVE CollectFeed(_, _, _)
CollectFeed(feed, acctName, existing) ==
  IF feed = << >> THEN [rows |-> << >>, raised |-> FALSE]
  ELSE LET item == Head(feed) IN
    IF item.type = "malformed" THEN [rows |-> << >>, raised |-> TRUE]
    ELSE LET rest == CollectFeed(Tail(feed), acctName, existing) IN
      IF item.type # PostType THEN rest
      ELSE IF item.uri \in existing THEN rest
      ELSE [rows |-> << PostRow(item, acctName) >> \o rest.rows,
            raised |-> rest.raised]

Uuids(rows) == { rows[i].uuid : i \in DOMAIN rows }

\* a _collect_posts that returns pd.DataFrame(posts) as it is
DropDuplicatesOmitted(rows) == rows

\* drop_duplicates(subset="uuid", keep="last")
RECURSIVE DropDuplicatesKeepLast(_)
DropDuplicatesKeepLast(rows) ==
  IF rows = << >> THEN << >>
  ELSE LET first == Head(rows)
           rest == DropDuplicatesKeepLast(Tail(rows))
       IN IF first.uuid \in { rest[i].uuid : i \in DOMAIN rest }
            THEN rest ELSE << first >> \o rest

\* DataFrame.drop_duplicates(subset="uuid"): keep="first" is the default
RECURSIVE DropDuplicates(_)
DropDuplicates(rows) ==
  IF rows = << >> THEN << >>
  ELSE LET init == DropDuplicates(SubSeq(rows, 1, Len(rows) - 1))
           last == rows[Len(rows)]
       IN IF last.uuid \in Uuids(init) THEN init ELSE Append(init, last)

\* raw_df[~raw_df["uuid"].isin(self.existing_uuids)]
NotExisting(rows, existing) ==
  LET Keep(r) == r.uuid \notin existing IN SelectSeq(rows, Keep)

\* pd.to_datetime(..., utc=True, errors="coerce") on one value
ToDatetime(raw) ==
  IF raw = "2024-01-01T00:00:00Z" THEN "2024-01-01 00:00:00+00:00" ELSE "NaT"

\* an _enrich_dataframe that drops the rows without a timestamp (dropna)
ParseTimestampsDropsUnknown(rows) ==
  LET Known(r) == ToDatetime(r.timestamp) # "NaT" IN
  [i \in DOMAIN SelectSeq(rows, Known) |->
     [SelectSeq(rows, Known)[i] EXCEPT !.timestamp = ToDatetime(@)]]

\* df["timestamp"] = pd.to_datetime(df["timestamp"], utc=True, errors="coerce")
ParseTimestamps(rows) ==
  [i \in DOMAIN rows |-> [rows[i] EXCEPT !.timestamp = ToDatetime(@)]]

\* df[["page_title", "meta_description"]] = <the results of the apply>
WithMetadata(rows, results) ==
  [i \in DOMAIN rows |->
     [uuid |-> rows[i].uuid, author |-> rows[i].author,
      timestamp |-> rows[i].timestamp, external_url |-> rows[i].external_url,
      page_title |-> results[i][1], meta_description |-> results[i][2]]]

\* an except branch that returns placeholders instead of empty strings
MetadataOnFailurePlaceholder == << "N/A", "N/A" >>

\* _fetch_metadata(url) when the GET or the parse raises
MetadataOnFailure == << "", "" >>

\* what _fetch_metadata(url) can return, with whether it hit an exception:
\* a url that cannot be fetched always raises inside the try
MetadataResults(url) ==
  { [pair |-> MetadataOnFailure, failed |-> TRUE] }
    \cup (IF Reachable(url)
          THEN { [pair |-> PageOf(url), failed |-> FALSE] } ELSE { })

\* DatabaseClient.get_existing_uuids
ExistingUuids(rows) == Uuids(rows)

\* what one successful getAuthorFeed request for account i answers
Responses(i) == IF env.frozen THEN { env.upstream[accounts[i]] } ELSE Feeds

\* interval_minutes * 60
IntervalSeconds == env.interval_minutes * 60

----------------------------------------------------------------------------
(* The worlds.  env is fixed in a behaviour:                               *)
(*   accountsFile      lines of data/accounts.txt                          *)
(*   hasAccountsFile   whether data/accounts.txt exists                    *)
(*   hasCredentials    whether BLUESKY_HANDLE and BLUESKY_APP_PASSWORD     *)
(*                     are set                                             *)
(*   frozen, upstream  frozen: every successful request for account a      *)
(*                     answers upstream[a]; otherwise the upstream answers *)
(*                     any feed of Feeds, anew at each request             *)
(*   limited           the accounts whose every request the upstream       *)
(*                     answers with status 429                             *)
(*   latencies         seconds one network request can take                *)
(*   interval_minutes  argument of run_forever                             *)

AccountsTxt == << "A", "B" >>

NoUpstream == [a \in { AccountsTxt[i] : i \in DOMAIN AccountsTxt } |-> << >>]

\* main.py: job.run_forever(interval_minutes=5)
MainInterval == 5

World(file, present, credentials, frozen, upstream, limited, latencies, minutes) ==
  [accountsFile |-> file, hasAccountsFile |-> present,
   hasCredentials |-> credentials, frozen |-> frozen, upstream |-> upstream,
   limited |-> limited, latencies |-> latencies, interval_minutes |-> minutes]

\* rows the table can hold when the process starts: pairwise distinct uuids
StoredRow(uuid, author) ==
  [uuid |-> uuid, author |-> author, timestamp |-> "NaT", external_url |-> "",
   page_title |-> "", meta_description |-> ""]

InitialStores == { << >>, << StoredRow("p2", "B") >> }

NoStatus == [i \in DOMAIN env.accountsFile |-> "none"]

InitProgram ==
  /\ pc = "construct"
  /\ accounts = << >>
  /\ existing_uuids = { }
  /\ acct = 0
  /\ posts = << >>
  /\ batch = << >>
  /\ meta = << >>
  /\ nRequests = 0
  /\ n429 = 0
  /\ nWaits = 0
  /\ waited = 0
  /\ clock = 0
  /\ elapsed = 0
  /\ to_sleep = 0
  /\ slept = 0
  /\ gap = 0
  /\ runs = 0
  /\ status = NoStatus
  /\ prevStatus = NoStatus
  /\ result = "none"
  /\ metaFailed = 0
  /\ interruptedAt = "none"
  /\ token = ""
  /\ appendCalls = 0
  /\ metaCalls = << >>
  /\ dbErrorLogged = FALSE

\* main.py against a live upstream
Init ==
  /\ env \in { World(AccountsTxt, present, credentials, FALSE, NoUpstream, { }, {0},
                       MainInterval) :
                 present \in BOOLEAN, credentials \in BOOLEAN }
  /\ store \in InitialStores
  /\ InitProgram

----------------------------------------------------------------------------
(* Actions *)

\* locals of run() and of the calls below it, gone when run() is left
ClearLocals ==
  /\ acct' = 0
  /\ posts' = << >>
  /\ batch' = << >>
  /\ meta' = << >>
  /\ nRequests' = 0
  /\ n429' = 0
  /\ nWaits' = 0
  /\ waited' = 0
  /\ metaFailed' = 0
  /\ metaCalls' = << >>

\* a constructor that logs a startup error and goes on
ConstructIgnoresErrors(authOk) ==
  /\ pc = "construct"
  /\ authOk => env.hasCredentials
  /\ existing_uuids' = ExistingUuids(store)
  /\ token' = IF authOk THEN "accessJwt" ELSE token
  /\ accounts' = env.accountsFile
  /\ pc' = "loop_top"
  /\ UNCHANGED << env, store, acct, posts, batch, meta, nRequests, n429, nWaits,
                  waited, clock, elapsed, to_sleep, slept, gap, runs, status,
                  prevStatus, result, metaFailed, interruptedAt, appendCalls,
                  metaCalls, dbErrorLogged >>

\* BlueskyIngest.__init__: the table is read, the session is created
\* (raise_for_status raises when the credentials are rejected; a request
\* without credentials is never accepted), the accounts file is loaded
\* (FileNotFoundError when it is missing).  main() has no handler: an
\* exception ends the process before run_forever is called.
Construct(authOk) ==
  /\ pc = "construct"
  /\ authOk => env.hasCredentials
  /\ existing_uuids' = ExistingUuids(store)
  /\ token' = IF authOk THEN "accessJwt" ELSE token
  /\ IF authOk /\ env.hasAccountsFile
       THEN accounts' = env.accountsFile /\ pc' = "loop_top"
       ELSE accounts' = accounts /\ pc' = "startup_failed"
  /\ UNCHANGED << env, store, acct, posts, batch, meta, nRequests, n429, nWaits,
                  waited, clock, elapsed, to_sleep, slept, gap, runs, status,
                  prevStatus, result, metaFailed, interruptedAt, appendCalls,
                  metaCalls, dbErrorLogged >>

\* a run() that keeps the set loaded by __init__ instead of reloading it
ReloadedUuidsStale == existing_uuids

\* run(): self.existing_uuids = self.db.get_existing_uuids()
ReloadedUuids == ExistingUuids(store)

\* run_forever: start = time.time(); self.run() up to the first account of
\* _collect_posts: existing_uuids is reloaded, posts = []
StartRun ==
  /\ pc = "loop_top"
  /\ runs < MaxRuns
  /\ runs' = runs + 1
  /\ gap' = IF runs = 0 THEN 0 ELSE clock
  /\ clock' = 0
  /\ slept' = 0
  /\ existing_uuids' = ReloadedUuids
  /\ posts' = << >>
  /\ batch' = << >>
  /\ meta' = << >>
  /\ acct' = 1
  /\ nRequests' = 0 /\ n429' = 0 /\ nWaits' = 0 /\ waited' = 0
  /\ prevStatus' = status
  /\ status' = NoStatus
  /\ metaFailed' = 0
  /\ elapsed' = 0
  /\ to_sleep' = 0
  /\ appendCalls' = 0
  /\ metaCalls' = << >>
  /\ pc' = IF accounts = << >> THEN "aggregate" ELSE "fetch"
  /\ UNCHANGED << env, token, dbErrorLogged,
                  accounts, store, result, interruptedAt >>

\* the for loop of _collect_posts moves to the next account, or ends
NextAccount ==
  /\ acct' = acct + 1
  /\ pc' = IF acct + 1 > Len(accounts) THEN "aggregate" ELSE "fetch"
  /\ nRequests' = 0 /\ n429' = 0 /\ nWaits' = 0 /\ waited' = 0

\* a _fetch_author_feed that calls raise_for_status on every answer: a 429
\* raises, and the account is given up
FetchRateLimitedRaises(d) ==
  /\ pc = "fetch"
  /\ n429 < MaxRetries
  /\ clock' = clock + d
  /\ status' = [status EXCEPT ![acct] = "error"]
  /\ NextAccount
  /\ UNCHANGED << env, token, appendCalls, metaCalls, dbErrorLogged,
                  accounts, existing_uuids, store, posts, batch, meta,
                  elapsed, to_sleep, slept, gap, runs, prevStatus, result,
                  metaFailed, interruptedAt >>

\* _fetch_author_feed: one requests.get answered 429
FetchRateLimited(d) ==
  /\ pc = "fetch"
  /\ n429 < MaxRetries
  /\ nRequests' = nRequests + 1
  /\ n429' = n429 + 1
  /\ clock' = clock + d
  /\ pc' = "cooldown"
  /\ UNCHANGED << env, token, appendCalls, metaCalls, dbErrorLogged,
                  accounts, existing_uuids, store, acct, posts, batch, meta,
                  nWaits, waited, elapsed, to_sleep, slept, gap, runs, status,
                  prevStatus, result, metaFailed, interruptedAt >>

\* a retry loop that requests again at once, without the sleep
CooldownSkipsSleep ==
  /\ pc = "cooldown"
  /\ pc' = "fetch"
  /\ UNCHANGED << env, token, appendCalls, metaCalls, dbErrorLogged,
                  accounts, existing_uuids, store, acct, posts, batch, meta,
                  nRequests, n429, nWaits, waited, clock, elapsed, to_sleep,
                  slept, gap, runs, status, prevStatus, result, metaFailed,
                  interruptedAt >>

\* _fetch_author_feed: logger.warning; time.sleep(5); back to the request
Cooldown ==
  /\ pc = "cooldown"
  /\ nWaits' = nWaits + 1
  /\ waited' = waited + RateLimitSleep
  /\ clock' = clock + RateLimitSleep
  /\ pc' = "fetch"
  /\ UNCHANGED << env, token, appendCalls, metaCalls, dbErrorLogged,
                  accounts, existing_uuids, store, acct, posts, batch, meta,
                  nRequests, n429, elapsed, to_sleep, slept, gap, runs, status,
                  prevStatus, result, metaFailed, interruptedAt >>

\* a _collect_posts whose try encloses the for loop: the first error ends
\* the collection
FetchErrorEndsLoop(d) ==
  /\ pc = "fetch"
  /\ accounts[acct] \notin env.limited
  /\ clock' = clock + d
  /\ status' = [status EXCEPT ![acct] = "error"]
  /\ pc' = "aggregate"
  /\ UNCHANGED << env, token, appendCalls, metaCalls, dbErrorLogged,
                  accounts, existing_uuids, store, acct, posts, batch, meta,
                  nRequests, n429, nWaits, waited, elapsed, to_sleep, slept, gap,
                  runs, prevStatus, result, metaFailed, interruptedAt >>

\* one requests.get that raises, or is answered with an error status other
\* than 429 (raise_for_status raises): the except of _collect_posts logs it
\* and the loop goes on with the next account, without the sleep
FetchError(d) ==
  /\ pc = "fetch"
  /\ accounts[acct] \notin env.limited
  /\ clock' = clock + d
  /\ status' = [status EXCEPT ![acct] = "error"]
  /\ NextAccount
  /\ UNCHANGED << env, token, appendCalls, metaCalls, dbErrorLogged,
                  accounts, existing_uuids, store, posts, batch, meta,
                  elapsed, to_sleep, slept, gap, runs, prevStatus, result,
                  metaFailed, interruptedAt >>

\* a _collect_posts that puts the rows of each account in front of the list
FetchOkPrepends(f, d) ==
  /\ pc = "fetch"
  /\ accounts[acct] \notin env.limited
  /\ clock' = clock + d
  /\ LET got == CollectFeed(f, accounts[acct], existing_uuids) IN
       /\ posts' = got.rows \o posts
       /\ IF got.raised
            THEN /\ status' = [status EXCEPT ![acct] = "raised"]
                 /\ NextAccount
            ELSE /\ status' = [status EXCEPT ![acct] = "ok"]
                 /\ nRequests' = nRequests + 1
                 /\ pc' = "acct_sleep"
                 /\ UNCHANGED << acct, n429, nWaits, waited >>
  /\ UNCHANGED << env, token, appendCalls, metaCalls, dbErrorLogged,
                  accounts, existing_uuids, store, batch, meta, elapsed,
                  to_sleep, slept, gap, runs, prevStatus, result, metaFailed,
                  interruptedAt >>

\* one requests.get answered 200 with feed f, and the item loop over f.  When
\* the loop raises, the except logs it and the next account follows at once.
FetchOk(f, d) ==
  /\ pc = "fetch"
  /\ accounts[acct] \notin env.limited
  /\ clock' = clock + d
  /\ LET got == CollectFeed(f, accounts[acct], existing_uuids) IN
       /\ posts' = posts \o got.rows
       /\ IF got.raised
            THEN /\ status' = [status EXCEPT ![acct] = "raised"]
                 /\ NextAccount
            ELSE /\ status' = [status EXCEPT ![acct] = "ok"]
                 /\ nRequests' = nRequests + 1
                 /\ pc' = "acct_sleep"
                 /\ UNCHANGED << acct, n429, nWaits, waited >>
  /\ UNCHANGED << env, token, appendCalls, metaCalls, dbErrorLogged,
                  accounts, existing_uuids, store, batch, meta, elapsed,
                  to_sleep, slept, gap, runs, prevStatus, result, metaFailed,
                  interruptedAt >>

\* _collect_posts: time.sleep(5) after an account whose feed was processed
AccountPause ==
  /\ pc = "acct_sleep"
  /\ clock' = clock + AccountSleep
  /\ NextAccount
  /\ UNCHANGED << env, token, appendCalls, metaCalls, dbErrorLogged,
                  accounts, existing_uuids, store, posts, batch, meta,
                  elapsed, to_sleep, slept, gap, runs, status, prevStatus,
                  result, metaFailed, interruptedAt >>

\* a run() without the two empty checks: an empty frame reaches the append
AggregateWithoutEmptyChecks ==
  /\ pc = "aggregate"
  /\ LET raw_df == DropDuplicates(posts)
         new_df == NotExisting(raw_df, existing_uuids)
     IN /\ batch' = ParseTimestamps(new_df)
        /\ pc' = IF new_df = << >> THEN "append" ELSE "enrich"
        /\ UNCHANGED << result, acct, posts, meta, nRequests, n429,
                        nWaits, waited, metaFailed, metaCalls >>
  /\ UNCHANGED << env, token, appendCalls, dbErrorLogged,
                  accounts, existing_uuids, store, clock, elapsed, to_sleep,
                  slept, gap, runs, status, prevStatus, interruptedAt >>

\* end of _collect_posts and run() up to the apply of _enrich_dataframe:
\* drop_duplicates, the empty short-circuit, the isin filter, the empty check
\* of _enrich_dataframe and of run(), the timestamps
Aggregate ==
  /\ pc = "aggregate"
  /\ LET raw_df == DropDuplicates(posts)
         new_df == NotExisting(raw_df, existing_uuids)
     IN IF raw_df = << >> \/ new_df = << >>
          THEN /\ result' = "empty"
               /\ pc' = "returned"
               /\ ClearLocals
          ELSE /\ batch' = ParseTimestamps(new_df)
               /\ pc' = "enrich"
               /\ UNCHANGED << result, acct, posts, meta, nRequests, n429,
                               nWaits, waited, metaFailed, metaCalls >>
  /\ UNCHANGED << env, token, appendCalls, dbErrorLogged,
                  accounts, existing_uuids, store, clock, elapsed, to_sleep,
                  slept, gap, runs, status, prevStatus, interruptedAt >>

\* an _enrich_dataframe that applies _fetch_metadata once per column
EnrichRowOncePerColumn(r, d) ==
  /\ pc = "enrich"
  /\ r \in MetadataResults(batch[Len(meta) + 1].external_url)
  /\ clock' = clock + d + d
  /\ metaFailed' = metaFailed + (IF r.failed THEN 1 ELSE 0)
  /\ metaCalls' = metaCalls \o << batch[Len(meta) + 1].uuid, batch[Len(meta) + 1].uuid >>
  /\ IF Len(meta) + 1 = Len(batch)
       THEN /\ batch' = WithMetadata(batch, Append(meta, r.pair))
            /\ meta' = << >>
            /\ pc' = "append"
       ELSE /\ meta' = Append(meta, r.pair)
            /\ UNCHANGED << batch, pc >>
  /\ UNCHANGED << env, token, appendCalls, dbErrorLogged,
                  accounts, existing_uuids, store, acct, posts, nRequests,
                  n429, nWaits, waited, elapsed, to_sleep, slept, gap, runs,
                  status, prevStatus, result, interruptedAt >>

\* one call of _fetch_metadata by the apply, for the next row; after the
\* last row the two columns are assigned
EnrichRow(r, d) ==
  /\ pc = "enrich"
  /\ r \in MetadataResults(batch[Len(meta) + 1].external_url)
  /\ clock' = clock + d
  /\ metaFailed' = metaFailed + (IF r.failed THEN 1 ELSE 0)
  /\ metaCalls' = Append(metaCalls, batch[Len(meta) + 1].uuid)
  /\ IF Len(meta) + 1 = Len(batch)
       THEN /\ batch' = WithMetadata(batch, Append(meta, r.pair))
            /\ meta' = << >>
            /\ pc' = "append"
       ELSE /\ meta' = Append(meta, r.pair)
            /\ UNCHANGED << batch, pc >>
  /\ UNCHANGED << env, token, appendCalls, dbErrorLogged,
                  accounts, existing_uuids, store, acct, posts, nRequests,
                  n429, nWaits, waited, elapsed, to_sleep, slept, gap, runs,
                  status, prevStatus, result, interruptedAt >>

\* a run() that calls append_dataframe once per row
AppendOkRowByRow ==
  /\ pc = "append"
  /\ store' = Append(store, Head(batch))
  /\ appendCalls' = appendCalls + 1
  /\ IF Len(batch) = 1
       THEN /\ result' = "appended"
            /\ pc' = "returned"
            /\ ClearLocals
       ELSE /\ batch' = Tail(batch)
            /\ UNCHANGED << result, pc, acct, posts, meta, nRequests, n429,
                            nWaits, waited, metaFailed, metaCalls >>
  /\ UNCHANGED << env, token, dbErrorLogged,
                  accounts, existing_uuids, clock, elapsed, to_sleep, slept,
                  gap, runs, status, prevStatus, interruptedAt >>

\* DatabaseClient.append_dataframe: to_sql appends every row in one
\* transaction and run() returns
AppendOk ==
  /\ pc = "append"
  /\ store' = store \o batch
  /\ appendCalls' = appendCalls + 1
  /\ result' = "appended"
  /\ pc' = "returned"
  /\ ClearLocals
  /\ UNCHANGED << env, token, dbErrorLogged,
                  accounts, existing_uuids, clock, elapsed, to_sleep, slept,
                  gap, runs, status, prevStatus, interruptedAt >>

\* an append that commits row by row: the rows before the failing one stay
AppendFailsAfterFirstRow ==
  /\ pc = "append"
  /\ appendCalls' = appendCalls + 1
  /\ dbErrorLogged' = TRUE
  /\ store' = Append(store, batch[1])
  /\ result' = "raised"
  /\ pc' = "crashed"
  /\ ClearLocals
  /\ UNCHANGED << env, token,
                  accounts, existing_uuids, clock, elapsed, to_sleep,
                  slept, gap, runs, status, prevStatus, interruptedAt >>

\* DatabaseClient.append_dataframe: to_sql raises SQLAlchemyError, nothing is
\* stored; logger.exception; raise.  run() has no handler, and run_forever
\* handles KeyboardInterrupt only: the exception leaves run_forever.
AppendFails ==
  /\ pc = "append"
  /\ appendCalls' = appendCalls + 1
  /\ dbErrorLogged' = TRUE
  /\ result' = "raised"
  /\ pc' = "crashed"
  /\ ClearLocals
  /\ UNCHANGED << env, token,
                  accounts, existing_uuids, store, clock, elapsed, to_sleep,
                  slept, gap, runs, status, prevStatus, interruptedAt >>

\* a loop that sleeps the whole interval after every run
ToSleepWholeInterval(e) == IntervalSeconds

\* to_sleep = interval_minutes * 60 - elapsed
ToSleep(e) == IntervalSeconds - e

\* run_forever after run() returned: elapsed, to_sleep, if to_sleep > 0
AfterRun ==
  /\ pc = "returned"
  /\ elapsed' = clock
  /\ to_sleep' = ToSleep(clock)
  /\ pc' = IF ToSleep(clock) > 0 THEN "sleep" ELSE "loop_top"
  /\ UNCHANGED << env, token, appendCalls, metaCalls, dbErrorLogged,
                  accounts, existing_uuids, store, acct, posts, batch, meta,
                  nRequests, n429, nWaits, waited, clock, slept, gap, runs,
                  status, prevStatus, result, metaFailed, interruptedAt >>

\* run_forever: time.sleep(to_sleep)
Sleep ==
  /\ pc = "sleep"
  /\ clock' = clock + to_sleep
  /\ slept' = to_sleep
  /\ pc' = "loop_top"
  /\ UNCHANGED << env, token, appendCalls, metaCalls, dbErrorLogged,
                  accounts, existing_uuids, store, acct, posts, batch, meta,
                  nRequests, n429, nWaits, waited, elapsed, to_sleep, gap, runs,
                  status, prevStatus, result, metaFailed, interruptedAt >>

InLoop ==
  { "loop_top", "fetch", "cooldown", "acct_sleep", "aggregate", "enrich",
    "append", "returned", "sleep" }

\* KeyboardInterrupt raised in the thread, wherever it is inside the try of
\* run_forever.  No except below run_forever catches it (they catch
\* Exception): the run in progress is abandoned and the loop is left.
Interrupt ==
  /\ pc \in InLoop
  /\ interruptedAt' = pc
  /\ pc' = "exited"
  /\ ClearLocals
  /\ UNCHANGED << env, token, appendCalls, dbErrorLogged,
                  accounts, existing_uuids, store, clock, elapsed, to_sleep,
                  slept, gap, runs, status, prevStatus, result >>

Next ==
  \/ \E authOk \in BOOLEAN : Construct(authOk)
  \/ StartRun
  \/ \E d \in env.latencies : FetchRateLimited(d)
  \/ Cooldown
  \/ \E d \in env.latencies : FetchError(d)
  \/ pc = "fetch" /\ \E f \in Responses(acct), d \in env.latencies : FetchOk(f, d)
  \/ AccountPause
  \/ Aggregate
  \/ \E r \in [pair : {MetadataOnFailure, PageOf("http://u1")}, failed : BOOLEAN],
        d \in env.latencies : EnrichRow(r, d)
  \/ AppendOk
  \/ AppendFails
  \/ AfterRun
  \/ Sleep
  \/ Interrupt

Spec == Init /\ [][Next]_vars

----------------------------------------------------------------------------
(* The same program against an upstream whose feeds do not change *)

AccountNames == { AccountsTxt[i] : i \in DOMAIN AccountsTxt }

\* the end-to-end scenario: A answers p1, p2, p3 and B answers p3, p4
ScenarioPost(uri) == Item(PostType, uri, "2024-01-01T00:00:00Z", "")

ScenarioUpstream ==
  [a \in AccountNames |->
     IF a = "A" THEN << ScenarioPost("p1"), ScenarioPost("p2"), ScenarioPost("p3") >>
     ELSE << ScenarioPost("p3"), ScenarioPost("p4") >>]

InitFrozen ==
  /\ env \in { World(AccountsTxt, TRUE, TRUE, TRUE, u, { }, {0}, MainInterval) :
                 u \in [AccountNames -> Feeds] \cup { ScenarioUpstream } }
  /\ store = << >>
  /\ InitProgram

SpecFrozen == InitFrozen /\ [][Next]_vars

----------------------------------------------------------------------------
(* run_forever(interval_minutes=1) over one account, with requests that   *)
(* take time                                                               *)

InitSched ==
  /\ env = World(<< "A" >>, TRUE, TRUE, FALSE, NoUpstream, { }, {0, 20}, 1)
  /\ store = << >>
  /\ InitProgram

SpecSched == InitSched /\ [][Next]_vars

----------------------------------------------------------------------------
(* The same program against an upstream that rate-limits some accounts     *)
(* for good.  The thread always takes its next step.                       *)

InitLimited ==
  /\ env \in { World(AccountsTxt, TRUE, TRUE, FALSE, NoUpstream, limited, {0},
                       MainInterval) : limited \in SUBSET AccountNames }
  /\ store = << >>
  /\ InitProgram

SpecLimited == InitLimited /\ [][Next]_vars /\ WF_vars(Next)

----------------------------------------------------------------------------
(* Properties *)

Max(a, b) == IF a >= b THEN a ELSE b

\* << uuid, author >> of each row, in order
Keys(rows) == [i \in DOMAIN rows |-> << rows[i].uuid, rows[i].author >>]

\* uuids of the post-type items of a feed that come before its first
\* malformed item: the items whose rows the item loop appends or filters
OfferedIds(feed) ==
  { feed[k].uri : k \in { k \in DOMAIN feed :
       /\ feed[k].type = PostType
       /\ \A j \in 1..k : feed[j].type # "malformed" } }

\* the accounts whose request was answered with a feed in this run
Answered(i) == status[i] \in { "ok", "raised" }

\* the frozen upstream's feed of account i
FeedOf(i) == env.upstream[accounts[i]]

\* C1 (idempotence): against an unchanged upstream, in a run that follows a
\* run which completed with a successful append, and in which only accounts
\* answer that also answered in that run, no row reaches enrichment or the
\* append: the run persists zero rows.
C1_SecondRunPersistsNothing ==
  ( /\ env.frozen
    /\ runs >= 2
    /\ result = "appended"
    /\ \A i \in DOMAIN status : Answered(i) => prevStatus[i] = status[i] )
  => (batch = << >> /\ pc # "append")

\* C1 witness: the second run has returned without an append, after every
\* account answered in both runs and the first run stored rows
C1_Witness ==
  /\ pc = "returned"
  /\ runs = 2
  /\ result = "empty"
  /\ Len(store) >= 2
  /\ \A i \in DOMAIN status : status[i] = "ok" /\ prevStatus[i] = "ok"

\* C2 (store uniqueness): no two stored rows share a uuid, and a batch about
\* to be appended holds no uuid of the store and no uuid twice.
C2_StoreIdsUnique ==
  /\ \A i, j \in DOMAIN store : i # j => store[i].uuid # store[j].uuid
  /\ pc = "append" =>
       /\ Uuids(batch) \cap Uuids(store) = { }
       /\ \A i, j \in DOMAIN batch : i # j => batch[i].uuid # batch[j].uuid

\* C2 witness: a later run, on a store that already holds rows, is about to
\* append after it collected some uuid more than once
C2_Witness ==
  /\ pc = "append"
  /\ runs = 2
  /\ store # << >>
  /\ Len(posts) > Len(batch)

\* C3 (as claimed): a post whose id is empty or missing is never passed to
\* append_dataframe.
C3_EmptyIdNeverAppended ==
  pc = "append" => \A i \in DOMAIN batch : batch[i].uuid # ""

\* C4 (failure isolation): once the collection of a run is over, every
\* configured account has been requested, whichever requests failed; and the
\* batch about to be appended holds every new post id of every account that
\* answered.
C4_FailureIsolation ==
  /\ pc \in { "aggregate", "enrich", "append" } =>
       \A i \in DOMAIN status : status[i] # "none"
  /\ (env.frozen /\ pc = "append") =>
       \A i \in DOMAIN status : Answered(i) =>
         (OfferedIds(FeedOf(i)) \ existing_uuids) \subseteq Uuids(batch)

\* C4 witness: the first account's request failed and the batch about to be
\* appended holds a post of the second account
C4_Witness ==
  /\ pc = "append"
  /\ status[1] = "error"
  /\ status[2] = "ok"
  /\ \E k \in DOMAIN batch : batch[k].author = accounts[2]

\* C5 (rate-limit retry): a _fetch_author_feed that was answered 429 N times
\* and then 200 returned without an error after exactly N + 1 requests and
\* N sleeps of 5 seconds; while it retries, every 429 is followed by one sleep.
C5_RateLimitRetry ==
  /\ pc = "acct_sleep" =>
       /\ status[acct] = "ok"
       /\ nRequests = n429 + 1
       /\ nWaits = n429
       /\ waited = RateLimitSleep * n429
  /\ pc = "fetch" => (nRequests = n429 /\ nWaits = n429)
  /\ pc = "cooldown" => (nRequests = n429 /\ nWaits + 1 = n429)

\* C5 witness: a fetch has returned after two 429 answers
C5_Witness ==
  /\ pc = "acct_sleep"
  /\ n429 = 2
  /\ nRequests = 3
  /\ waited = 10

\* C6 (as claimed): an error raised by run() does not end run_forever.
C6_LoopSurvivesRunError ==
  result = "raised" => pc # "crashed"

\* C7 (enrichment failure isolation): when every _fetch_metadata call of a
\* run failed, the batch about to be appended holds every row that survived
\* the dedup, in order, each with page_title and meta_description "".
C7_EnrichmentFailureIsolation ==
  (pc = "append" /\ metaFailed = Len(batch)) =>
    /\ Keys(batch) = Keys(NotExisting(DropDuplicates(posts), existing_uuids))
    /\ \A i \in DOMAIN batch :
         batch[i].page_title = "" /\ batch[i].meta_description = ""

\* C7 witness: a batch of two rows, one with a link, is about to be appended
\* after both metadata fetches failed
C7_Witness ==
  /\ pc = "append"
  /\ Len(batch) = 2
  /\ metaFailed = 2
  /\ \E i \in DOMAIN batch : batch[i].external_url = "http://u1"

\* C8 (first occurrence wins): a batch about to be appended holds each uuid
\* once, each that some answered feed offered, attributed to the first
\* account in configured order whose answered feed offered it; in the
\* end-to-end scenario the first run stores p1, p2, p3 of A and p4 of B.
C8_FirstOccurrenceWins ==
  /\ (env.frozen /\ pc = "append") =>
       /\ \A i, j \in DOMAIN batch : i # j => batch[i].uuid # batch[j].uuid
       /\ \A k \in DOMAIN batch :
            \E i \in DOMAIN accounts :
              /\ Answered(i)
              /\ batch[k].uuid \in OfferedIds(FeedOf(i))
              /\ batch[k].author = accounts[i]
              /\ \A j \in 1..(i - 1) :
                   ~(Answered(j) /\ batch[k].uuid \in OfferedIds(FeedOf(j)))
  /\ ( /\ env.frozen
       /\ env.upstream = ScenarioUpstream
       /\ runs = 1
       /\ result = "appended" )
     => \/ Keys(store) = << <<"p1", "A">>, <<"p2", "A">>, <<"p3", "A">>, <<"p4", "B">> >>
        \/ \E i \in DOMAIN status : status[i] # "ok"

\* C8 witness: the end-to-end scenario has stored its four posts
C8_Witness ==
  /\ env.upstream = ScenarioUpstream
  /\ runs = 1
  /\ result = "appended"
  /\ \A i \in DOMAIN status : status[i] = "ok"
  /\ Keys(store) = << <<"p1", "A">>, <<"p2", "A">>, <<"p3", "A">>, <<"p4", "B">> >>

C10_ExitOnlyBetweenRuns ==
  pc = "exited" => interruptedAt \in { "loop_top", "returned", "sleep" }

\* C11: a startup failure is fatal and nothing is started.  The loop is
\* entered only with credentials that were accepted and an accounts file that
\* exists; when construction raised, no run was started, no feed was
\* requested, no metadata was fetched, nothing was appended, the table is as
\* it was found, and the process takes no further step.
C11_StartupFailureIsFatal ==
  /\ [](pc \notin { "construct", "startup_failed" } =>
          /\ env.hasCredentials
          /\ env.hasAccountsFile
          /\ token # ""
          /\ accounts = env.accountsFile)
  /\ [](pc = "startup_failed" =>
          /\ ~env.hasCredentials \/ ~env.hasAccountsFile \/ token = ""
          /\ runs = 0 /\ status = NoStatus /\ result = "none"
          /\ nRequests = 0 /\ posts = << >> /\ batch = << >>
          /\ metaCalls = << >> /\ appendCalls = 0
          /\ store \in InitialStores /\ clock = 0)
  /\ [][pc # "startup_failed"]_vars

\* the session was created, data/accounts.txt is missing, construction raised
C11_Witness ==
  /\ pc = "startup_failed"
  /\ token # ""
  /\ ~env.hasAccountsFile
  /\ store # << >>

\* C12: a run in which no post survives collection and dedup returns
\* normally without a metadata fetch and without an append; the append is
\* never entered with an empty batch.
C12_EmptyBatchShortCircuit ==
  /\ [](pc \in { "enrich", "append" } => batch # << >>)
  /\ [](result = "empty" => appendCalls = 0)
  /\ [][(/\ pc = "aggregate"
          /\ NotExisting(DropDuplicates(posts), existing_uuids) = << >>
          /\ pc' # "exited")
        => (/\ pc' = "returned" /\ result' = "empty"
            /\ metaCalls = << >> /\ metaCalls' = << >>
            /\ appendCalls' = 0 /\ store' = store)]_vars

\* a second run whose accounts both answered, and only posts that are stored
\* already: it returned without an append
C12_Witness ==
  /\ pc = "returned"
  /\ runs = 2
  /\ result = "empty"
  /\ store # << >>
  /\ \A i \in DOMAIN status : status[i] = "ok"
  /\ appendCalls = 0

\* C13: when the append fails with a storage error, the failure is logged,
\* the error leaves run() (and, uncaught, run_forever), and the table holds
\* exactly the rows it held before the append: none of the batch.
C13_PersistenceFailure ==
  /\ [](result = "raised" =>
          /\ dbErrorLogged
          /\ pc = "crashed"
          /\ appendCalls = 1
          /\ ExistingUuids(store) = existing_uuids)
  /\ [](dbErrorLogged => result = "raised")
  /\ [][(pc = "append" /\ pc' = "crashed")
        => (store' = store /\ dbErrorLogged' /\ result' = "raised")]_vars
  /\ [][pc # "crashed"]_vars

\* the append of a second run failed: the rows of the first run are all there
\* is in the table
C13_Witness ==
  /\ pc = "crashed"
  /\ result = "raised"
  /\ runs = 2
  /\ dbErrorLogged
  /\ store # << >>

\* uuids of all the post-type items of a feed
PostIds(feed) == { feed[k].uri : k \in { k \in DOMAIN feed : feed[k].type = PostType } }

\* C14: the ids of the batch handed to the append are exactly the ids of the
\* post-type records of the feeds of the accounts whose fetch succeeded in
\* this run, minus the ids stored when the run started.  An account whose
\* request was answered and whose feed then raised in the item loop is taken
\* either way: as fetched, or as failed.
C14_BatchContent ==
  pc = "append" =>
    \E fetched \in { { i \in DOMAIN status : Answered(i) },
                     { i \in DOMAIN status : status[i] = "ok" } } :
      Uuids(batch) = UNION { PostIds(FeedOf(i)) : i \in fetched } \ existing_uuids

\* the positions of _collect_posts
Collecting == { "fetch", "cooldown", "acct_sleep" }

\* C15: stage ordering.  A run reloads the stored ids before its first feed
\* request and filters with that set, which is the table's id set for the
\* whole run; while feeds are requested no metadata has been fetched; the
\* metadata is fetched after the last account and before the append; a run
\* calls the append at most once, and only the append changes the table.
C15_StageOrdering ==
  /\ [](pc \in Collecting \cup { "aggregate", "enrich", "append" } =>
          existing_uuids = ExistingUuids(store))
  /\ [](pc \in Collecting \cup { "aggregate" } =>
          metaCalls = << >> /\ appendCalls = 0)
  /\ [](pc \in { "enrich", "append" } =>
          /\ acct = Len(accounts) + 1
          /\ \A i \in DOMAIN status : status[i] # "none"
          /\ appendCalls = 0)
  /\ [](pc = "append" => Len(metaCalls) = Len(batch))
  /\ [](appendCalls <= 1)
  /\ [][(pc = "loop_top" /\ pc' \in { "fetch", "aggregate" }) =>
          (existing_uuids' = ExistingUuids(store) /\ status' = NoStatus)]_vars
  /\ [][store' # store =>
          (pc = "append" /\ appendCalls = 0 /\ appendCalls' = 1)]_vars

\* a second run has gone through all the stages and appended
C15_Witness ==
  /\ pc = "returned"
  /\ runs = 2
  /\ result = "appended"
  /\ appendCalls = 1
  /\ Len(store) >= 2

\* where the upstream offers uuid u in this run: << account index, index in
\* the feed >> of the post-type items with that uri that the item loop reaches
Positions(u) ==
  { p \in UNION { { << i, k >> : k \in DOMAIN FeedOf(i) } :
                    i \in { i \in DOMAIN status : Answered(i) } } :
      /\ FeedOf(p[1])[p[2]].type = PostType
      /\ FeedOf(p[1])[p[2]].uri = u
      /\ \A j \in 1..p[2] : FeedOf(p[1])[j].type # "malformed" }

\* account order, then feed order
Before(p, q) == p[1] < q[1] \/ (p[1] = q[1] /\ p[2] < q[2])

FirstPosition(u) ==
  CHOOSE p \in Positions(u) : \A q \in Positions(u) : p = q \/ Before(p, q)

\* C16: processing order.  The accounts are requested in list order: during
\* the collection the accounts before the current one have been dealt with
\* and the ones after it have not.  The batch lists the surviving posts by
\* their first occurrence, in account order and then in feed order, and each
\* row is credited to the account of that first occurrence.
C16_ProcessingOrder ==
  /\ pc \in Collecting =>
       \A i \in DOMAIN status :
         /\ i < acct => status[i] # "none"
         /\ i > acct => status[i] = "none"
         /\ (i = acct /\ pc # "acct_sleep") => status[i] = "none"
  /\ pc \in { "enrich", "append" } =>
       \A a \in DOMAIN batch :
         /\ Positions(batch[a].uuid) # { }
         /\ batch[a].author = accounts[FirstPosition(batch[a].uuid)[1]]
         /\ \A b \in DOMAIN batch :
              a < b => Before(FirstPosition(batch[a].uuid),
                              FirstPosition(batch[b].uuid))

\* the scenario: A answers p1, p2, p3 and B answers p3, p4; the batch is
\* p1, p2, p3, p4
C16_Witness ==
  /\ pc = "append"
  /\ env.upstream = ScenarioUpstream
  /\ [i \in DOMAIN batch |-> batch[i].uuid] = << "p1", "p2", "p3", "p4" >>

EnrichmentFields == { "page_title", "meta_description" }

\* C17: dedup comes before enrichment.  _fetch_metadata is called for rows of
\* the deduplicated, filtered batch only, one row after the other: never for
\* an id that was stored when the run started, never twice for an id, and by
\* the time of the append exactly once for each row of the batch.  Every row
\* handed to the append, and so every row stored, has its two enrichment
\* fields.
C17_DedupBeforeEnrichment ==
  /\ \A k \in DOMAIN metaCalls :
       /\ metaCalls[k] \notin existing_uuids
       /\ metaCalls[k] \notin ExistingUuids(store)
       /\ \A j \in DOMAIN metaCalls : j # k => metaCalls[j] # metaCalls[k]
  /\ pc = "enrich" =>
       /\ Len(metaCalls) < Len(batch)
       /\ metaCalls = [k \in 1..Len(metaCalls) |-> batch[k].uuid]
  /\ pc = "append" =>
       /\ metaCalls = [k \in DOMAIN batch |-> batch[k].uuid]
       /\ \A k \in DOMAIN batch : EnrichmentFields \subseteq DOMAIN batch[k]
  /\ pc \notin { "enrich", "append" } => metaCalls = << >>
  /\ \A k \in DOMAIN store : EnrichmentFields \subseteq DOMAIN store[k]

\* two rows are ready for the append, each fetched once; a duplicate was
\* dropped and the table was not empty when the run started
C17_Witness ==
  /\ pc = "append"
  /\ Len(batch) = 2
  /\ Len(metaCalls) = 2
  /\ Len(posts) > Len(batch)
  /\ store # << >>

\* the createdAt values of the feeds that to_datetime cannot parse: a missing
\* one (read as "") and free text
UnparseableTimestamps == { "", "yesterday" }

\* C18: a malformed timestamp does not reject a post.  Every new post of the
\* run is in the batch, the ones whose createdAt is missing or unparseable
\* with the timestamp NaT, and a successful append stores the whole batch.
C18_MalformedTimestampKept ==
  /\ [](pc \in { "enrich", "append" } =>
          LET new_df == NotExisting(DropDuplicates(posts), existing_uuids) IN
            /\ Len(batch) = Len(new_df)
            /\ \A i \in DOMAIN new_df :
                 /\ batch[i].uuid = new_df[i].uuid
                 /\ new_df[i].timestamp \in UnparseableTimestamps
                      => batch[i].timestamp = "NaT"
                 /\ new_df[i].timestamp \notin UnparseableTimestamps
                      => batch[i].timestamp # "NaT")
  /\ [][(pc = "append" /\ pc' = "returned") => store' = store \o batch]_vars

\* the first run stored a dated post and, after it, a post without a
\* parseable createdAt
C18_Witness ==
  /\ pc = "returned"
  /\ runs = 1
  /\ result = "appended"
  /\ Len(store) = 2
  /\ store[1].timestamp # "NaT"
  /\ store[2].timestamp = "NaT"

\* indices of the accounts that the upstream rate-limits for good
LimitedAccounts == { i \in DOMAIN accounts : accounts[i] \in env.limited }

\* the positions inside run()
Running == Collecting \cup { "aggregate", "enrich", "append" }

\* C19: termination of a run depends on the upstream.  When no account is
\* rate-limited for good (each request gets at most MaxRetries 429 answers),
\* a run that was started is left: run() returns or raises.  A 429 answer
\* leads, after the cooldown, to the same request of the same account, with
\* nothing collected or stored in between.  When some account is
\* rate-limited for good, the first run never gets past the first such
\* account: it stays in the collection, at or before that account, and
\* never gets an answer for it (unless it is interrupted); no later account
\* is requested, no metadata is fetched,
\* nothing is appended, and no second run starts.
C19_TerminationDependsOnUpstream ==
  /\ (env.limited = { } /\ pc \in Running)
       ~> (pc \in { "returned", "crashed", "exited" })
  /\ [][pc = "cooldown" =>
          \/ pc' = "exited"
          \/ /\ pc' = "fetch" /\ acct' = acct /\ n429' = n429
             /\ posts' = posts /\ status' = status /\ store' = store
             /\ runs' = runs]_vars
  /\ [](pc = "cooldown" => n429 = nRequests /\ n429 >= 1 /\ status[acct] = "none")
  /\ []((LimitedAccounts # { } /\ runs >= 1) =>
          /\ runs = 1
          /\ pc \in Collecting \cup { "exited" }
          /\ pc # "exited" => \A i \in LimitedAccounts : acct <= i
          /\ pc = "acct_sleep" => acct \notin LimitedAccounts
          /\ \A i \in LimitedAccounts :
               \A j \in DOMAIN status : j >= i => status[j] = "none"
          /\ result = "none" /\ store = << >>
          /\ metaCalls = << >> /\ appendCalls = 0)

\* account A has answered; B, rate-limited for good, has answered 429
\* MaxRetries times and the thread is in the cooldown once more
C19_Witness ==
  /\ env.limited = { "B" }
  /\ pc = "cooldown"
  /\ acct = 2
  /\ n429 = MaxRetries
  /\ status[1] = "ok"
  /\ posts # << >>

\* C20: partial retention.  When the item loop of an account raises at a
\* malformed item, the collection goes on with the next account, the rows
\* collected from the items before the malformed one stay in the collection
\* and are in the batch handed to the append, and the items after it are
\* lost: the batch has no id that no answered feed offers before its first
\* malformed item.
C20_PartialRetention ==
  /\ pc \in Collecting =>
       \A i \in DOMAIN status : status[i] = "raised" => acct > i
  /\ pc \in Running =>
       \A i \in DOMAIN status : status[i] = "raised" =>
         /\ \E k \in DOMAIN FeedOf(i) : FeedOf(i)[k].type = "malformed"
         /\ OfferedIds(FeedOf(i)) \ existing_uuids \subseteq Uuids(posts)
  /\ pc = "append" =>
       /\ \A i \in DOMAIN status : status[i] = "raised" =>
            OfferedIds(FeedOf(i)) \ existing_uuids \subseteq Uuids(batch)
       /\ \A u \in Uuids(batch) :
            \E j \in DOMAIN status : Answered(j) /\ u \in OfferedIds(FeedOf(j))

\* A's feed raised after a post was mapped, B's feed was processed: the batch
\* has the row of A and a row of B, and not the post behind A's malformed item
C20_Witness ==
  /\ pc = "append"
  /\ status = << "raised", "ok" >>
  /\ Len(FeedOf(1)) = 2
  /\ FeedOf(1)[1].type = PostType
  /\ batch[1].author = "A"
  /\ Len(batch) = 2
  /\ batch[2].author = "B"

====
